---- MODULE Spec2Model ----
(***************************************************************************)
(* Transitive-closure index of aiida/backends/sqlalchemy/utils.py: the     *)
(* plpgsql trigger function update_tc() that get_pg_tc() generates and the *)
(* trigger autoupdate_tc that fires it AFTER every row INSERT / DELETE /   *)
(* UPDATE on the links table db_dblink, maintaining the closure table      *)
(* db_dbpath.                                                              *)
(*                                                                         *)
(* State: the rows of db_dblink (links), the rows of db_dbpath (paths),    *)
(* the id sequence of db_dbpath (nextId) and the way the trigger function  *)
(* left its last call (last).  Under Spec one action is one row event with *)
(* the whole trigger body.  Under SpecTxn two database sessions run row     *)
(* events statement by statement, each in its own transaction (txn).       *)
(* SpecFail adds storage failures and SpecUpd row UPDATEs.  SpecEnv is the  *)
(* Python side of the file: load_profile and load_dbenv on the settings of *)
(* the process and the SQLAlchemy session (py).                            *)
(***************************************************************************)
EXTENDS Integers, FiniteSets, Sequences, Bags, TLC

\* ---------------------------------------------------------------- bounds
\* Node ids that link rows may mention.
Nodes == {"A", "B", "C", "D"}

\* The (input_id, output_id) of the rows that are inserted: every pair over
\* A, B, C (self-loops and back edges included) and the edge C -> D, which
\* completes the chain A -> B -> C -> D.
Inputs == ({"A", "B", "C"} \X {"A", "B", "C"}) \cup {<<"C", "D">>}

\* The database sessions that run row events concurrently.
Sessions == {"s1", "s2"}

\* The rows that the concurrent sessions insert and delete: the edges of the
\* chain A -> B -> C -> D and the back edge B -> A.
TxnInputs == {<<"A", "B">>, <<"B", "C">>, <<"C", "D">>, <<"B", "A">>}

\* The rows that an UPDATE turns a db_dblink row into: one that closes a cycle
\* with (A, B), one that extends it, and a self-loop.
UpdInputs == {<<"B", "A">>, <<"B", "C">>, <<"A", "A">>}

\* Largest number of calls of load_profile and load_dbenv in one process.
MaxCalls == 3

\* Largest number of transactions the concurrent sessions open in one run.
MaxTxns == 3

\* Largest number of rows db_dblink holds at once.
MaxLinks == 3

\* Row INSERTs are taken while the db_dbpath id sequence is at most here.
MaxId == 7

\* ------------------------------------------------------------- the state
VARIABLES links, paths, nextId, last, txn, py

vars == <<links, paths, nextId, last, txn, py>>

\* A column that an INSERT does not list is NULL.
NULL == 0

\* db_dblink: the trigger reads only input_id and output_id of the row, so
\* the table is kept as the bag of the (input_id, output_id) of its rows.
LinkRow(i, o) == SetToBag({<<i, o>>})

LinkCount(l) == BagCardinality(l)

\* One row of db_dbpath.
PathRow(id, parent, child, depth, entry, direct, exit) ==
    [id |-> id, parent_id |-> parent, child_id |-> child, depth |-> depth,
     entry_edge_id |-> entry, direct_edge_id |-> direct, exit_edge_id |-> exit]

\* Position of row r among the rows S of a SELECT, scanned in id order.
Rank(r, S) == Cardinality({s \in S : s.id < r.id})

\* ------------------------------------------------- update_tc, INSERT branch
\* Fault variant of DuplicateExists: the test "AND depth = 0" left out.
DuplicateAnyDepth(T, i, o) ==
    \E r \in T : r.parent_id = i /\ r.child_id = o

\* Fault variant of DuplicateExists: parent and child compared the wrong way
\* round.
DuplicateReversed(T, i, o) ==
    \E r \in T : r.parent_id = o /\ r.child_id = i /\ r.depth = 0

\* IF EXISTS (... parent = new.input AND child = new.output AND depth = 0)
DuplicateExists(T, i, o) ==
    \E r \in T : r.parent_id = i /\ r.child_id = o /\ r.depth = 0

\* Fault variants of LoopOrCycle: the EXISTS test, resp. the self-loop test,
\* left out.
LoopOnly(T, i, o) == i = o

CycleOnly(T, i, o) == \E r \in T : r.parent_id = o /\ r.child_id = i

\* new.input = new.output OR EXISTS (... parent = new.output AND child = new.input)
LoopOrCycle(T, i, o) ==
    \/ i = o
    \/ \E r \in T : r.parent_id = o /\ r.child_id = i

\* Which RETURN the INSERT branch leaves by, named by the condition that fired.
Guard(T, i, o) ==
    IF DuplicateExists(T, i, o) THEN "AlreadyLinked"
    ELSE IF LoopOrCycle(T, i, o)
         THEN (IF i = o THEN "SelfLoop" ELSE "WouldCreateCycle")
         ELSE "ok"

\* INSERT INTO closure (parent, child, depth) VALUES (new.input, new.output, 0)
InsertDirect(T, i, o, newId) ==
    T \cup {PathRow(newId, i, o, 0, NULL, NULL, NULL)}

\* Fault variant of UpdateDirect: the WHERE clause left out.
UpdateDirectAllRows(T, newId) ==
    {[r EXCEPT !.entry_edge_id = newId, !.exit_edge_id = newId,
               !.direct_edge_id = newId] : r \in T}

\* UPDATE closure SET entry = exit = direct = new_id WHERE id = new_id
UpdateDirect(T, newId) ==
    {IF r.id = newId
     THEN [r EXCEPT !.entry_edge_id = newId, !.exit_edge_id = newId,
                    !.direct_edge_id = newId]
     ELSE r : r \in T}

\* Fault variant of EntrySources: the WHERE clause left out.
EntrySourcesAll(T, i) == T

\* Fault variant of InsertEntryPaths: depth copied instead of depth + 1.
InsertEntryPathsSameDepth(T, i, o, newId, base) ==
    LET S == {r \in T : r.child_id = i}
    IN T \cup {PathRow(base + Rank(r, S), r.parent_id, o, r.depth,
                       r.id, newId, newId) : r \in S}

\* INSERT ... SELECT id, new_id, new_id, parent, new.output, depth + 1
\*   FROM closure WHERE child = new.input
EntrySources(T, i) == {r \in T : r.child_id = i}

InsertEntryPaths(T, i, o, newId, base) ==
    LET S == EntrySources(T, i)
    IN T \cup {PathRow(base + Rank(r, S), r.parent_id, o, r.depth + 1,
                       r.id, newId, newId) : r \in S}

\* Fault variant of InsertExitPaths: the statement left out.
InsertExitPathsSkipped(T, i, o, newId, base) == T

\* INSERT ... SELECT new_id, new_id, id, new.input, child, depth + 1
\*   FROM closure WHERE parent = new.output
ExitSources(T, o) == {r \in T : r.parent_id = o}

InsertExitPaths(T, i, o, newId, base) ==
    LET S == ExitSources(T, o)
    IN T \cup {PathRow(base + Rank(r, S), i, r.child_id, r.depth + 1,
                       newId, newId, r.id) : r \in S}

\* Fault variant of InsertCrossPaths: A.depth + B.depth + 1.
InsertCrossPathsDepthOff(T, i, o, newId, base) ==
    LET SA == {r \in T : r.child_id = i}
        SB == {r \in T : r.parent_id = o}
    IN T \cup {PathRow(base + Rank(ab[1], SA) * Cardinality(SB) + Rank(ab[2], SB),
                       ab[1].parent_id, ab[2].child_id,
                       ab[1].depth + ab[2].depth + 1,
                       ab[1].id, newId, ab[2].id) : ab \in SA \X SB}

\* Fault variant of InsertCrossPaths: the statement left out.
InsertCrossPathsSkipped(T, i, o, newId, base) == T

\* INSERT ... SELECT A.id, new_id, B.id, A.parent, B.child, A.depth + B.depth + 2
\*   FROM closure A CROSS JOIN closure B
\*   WHERE A.child = new.input AND B.parent = new.output
InsertCrossPaths(T, i, o, newId, base) ==
    LET SA == EntrySources(T, i)
        SB == ExitSources(T, o)
    IN T \cup {PathRow(base + Rank(ab[1], SA) * Cardinality(SB) + Rank(ab[2], SB),
                       ab[1].parent_id, ab[2].child_id,
                       ab[1].depth + ab[2].depth + 2,
                       ab[1].id, newId, ab[2].id) : ab \in SA \X SB}

\* The statements of the INSERT branch after the guards, one after the other,
\* each reading the table the previous one left.
InsertStatements(T, i, o, newId) ==
    LET T1 == InsertDirect(T, i, o, newId)
        T2 == UpdateDirect(T1, newId)
        T3 == InsertEntryPaths(T2, i, o, newId, newId + 1)
        T4 == InsertExitPaths(T3, i, o, newId, newId + 1 + Cardinality(T3 \ T2))
        T5 == InsertCrossPaths(T4, i, o, newId,
                               newId + 1 + Cardinality(T4 \ T2))
    IN T5

\* Fault variant of UpdateTcInsert: the depth-0 row written before the guards.
UpdateTcInsertWriteFirst(T, i, o, newId) ==
    IF Guard(T, i, o) = "ok" THEN InsertStatements(T, i, o, newId)
    ELSE UpdateDirect(InsertDirect(T, i, o, newId), newId)

\* The INSERT branch: both guards RETURN null before any write.
UpdateTcInsert(T, i, o, newId) ==
    IF Guard(T, i, o) = "ok" THEN InsertStatements(T, i, o, newId) ELSE T

\* ------------------------------------------------- update_tc, DELETE branch
\* Fault variant of DirectIds: the test "AND depth = 0" left out.
DirectIdsAnyDepth(T, i, o) ==
    {r.id : r \in {s \in T : s.parent_id = i /\ s.child_id = o}}

\* IF NOT EXISTS (... parent = old.input AND child = old.output AND depth = 0)
DirectIds(T, i, o) ==
    {r.id : r \in {s \in T : s.parent_id = i /\ s.child_id = o /\ s.depth = 0}}

\* Fault variant of PurgeScan: the test "Id NOT IN PurgeList" left out.
PurgeScanNoNotIn(T, PL) ==
    {r.id : r \in {s \in T : /\ s.depth > 0
                             /\ \/ s.entry_edge_id \in PL
                                \/ s.direct_edge_id \in PL
                                \/ s.exit_edge_id \in PL}}

\* Fault variant of PurgeScan: the test of entry_edge_id left out.
PurgeScanNoEntry(T, PL) ==
    {r.id : r \in {s \in T : /\ s.depth > 0
                             /\ \/ s.direct_edge_id \in PL
                                \/ s.exit_edge_id \in PL
                             /\ s.id \notin PL}}

\* Fault variant of PurgeScan: the test of exit_edge_id left out.
PurgeScanNoExit(T, PL) ==
    {r.id : r \in {s \in T : /\ s.depth > 0
                             /\ \/ s.entry_edge_id \in PL
                                \/ s.direct_edge_id \in PL
                             /\ s.id \notin PL}}

\* One pass of the WHILE loop: the ids its INSERT INTO PurgeList adds.
PurgeScan(T, PL) ==
    {r.id : r \in {s \in T : /\ s.depth > 0
                             /\ \/ s.entry_edge_id \in PL
                                \/ s.direct_edge_id \in PL
                                \/ s.exit_edge_id \in PL
                             /\ s.id \notin PL}}

\* Fault variant of PurgeLoop: one pass instead of the loop.
PurgeLoopOnce(T, PL) == PL \cup PurgeScan(T, PL)

\* WHILE (1 = 1) loop ... if (num_rows = 0) THEN EXIT
RECURSIVE PurgeLoop(_, _)
PurgeLoop(T, PL) ==
    LET added == PurgeScan(T, PL)
    IN IF added = {} THEN PL ELSE PurgeLoop(T, PL \cup added)

PurgeList(T, i, o) == PurgeLoop(T, DirectIds(T, i, o))

\* DELETE FROM closure WHERE id IN (SELECT id FROM PurgeList)
UpdateTcDelete(T, i, o) ==
    IF DirectIds(T, i, o) = {} THEN T
    ELSE {r \in T : r.id \notin PurgeList(T, i, o)}

\* ------------------------------------- load_profile and load_dbenv
\* None, and the names of processes, profiles and database engines.
None == "None"

\* DEFAULT_PROCESS of aiida.common.setup.
DEFAULT_PROCESS == "verdi"

Processes == {"verdi", "daemon"}

Profiles == {"default", "test"}

\* What get_default_profile and get_profile_config can give: a profile, resp.
\* the AIIDADB_ENGINE of the profile's config, or a ConfigurationError.
DefaultProfiles == Profiles \cup {"ConfigurationError"}

Engines == {"postgresql_psycopg2", "sqlite3", "ConfigurationError"}

\* The module state of a process that has called nothing yet: the flags and
\* names of aiida.backends.settings, sqlalchemy.session, and the last call
\* with the way it ended.  n counts the calls; profile_entered and
\* dbenv_entered remember that the body of load_profile, resp. load_dbenv, was
\* entered.
FreshPy ==
    [LOAD_PROFILE_CALLED |-> FALSE, LOAD_DBENV_CALLED |-> FALSE,
     CURRENT_AIIDADB_PROCESS |-> None, AIIDADB_PROFILE |-> None,
     session |-> <<None>>, call |-> "none", raised |-> "none", n |-> 0,
     profile_entered |-> FALSE, dbenv_entered |-> FALSE]

is_profile_loaded(p) == p.LOAD_PROFILE_CALLED

is_dbenv_loaded(p) == p.session # <<None>>

\* Fault variant of load_profile: LOAD_PROFILE_CALLED set on the way out, when
\* the config is returned, instead of on the way in.
load_profile_flag_late(p, process, profile, dflt, engine) ==
    IF p.LOAD_PROFILE_CALLED
    THEN [p EXCEPT !.raised = "InvalidOperation", !.profile_entered = TRUE]
    ELSE LET p1 == [p EXCEPT !.profile_entered = TRUE]
             p2 == IF p1.CURRENT_AIIDADB_PROCESS = None /\ process = None
                   THEN [p1 EXCEPT !.CURRENT_AIIDADB_PROCESS = DEFAULT_PROCESS]
                   ELSE IF process # None
                           /\ process # p1.CURRENT_AIIDADB_PROCESS
                        THEN [p1 EXCEPT !.CURRENT_AIIDADB_PROCESS = process,
                                        !.AIIDADB_PROFILE = None]
                        ELSE p1
         IN IF p2.AIIDADB_PROFILE # None /\ profile # None
            THEN [p2 EXCEPT !.raised = "ValueError"]
            ELSE IF p2.AIIDADB_PROFILE = None /\ profile = None
                    /\ dflt = "ConfigurationError"
            THEN [p2 EXCEPT !.raised = "ConfigurationError"]
            ELSE LET p3 == IF p2.AIIDADB_PROFILE # None THEN p2
                           ELSE [p2 EXCEPT !.AIIDADB_PROFILE =
                                     IF profile # None THEN profile ELSE dflt]
                 IN IF engine = "ConfigurationError"
                    THEN [p3 EXCEPT !.raised = "ConfigurationError"]
                    ELSE IF engine # "postgresql_psycopg2"
                    THEN [p3 EXCEPT !.raised = "ValueError"]
                    ELSE [p3 EXCEPT !.raised = "config",
                                    !.LOAD_PROFILE_CALLED = TRUE]

\* load_profile(process, profile) in the module state p.  dflt is what
\* get_default_profile gives and engine the AIIDADB_ENGINE that
\* get_profile_config gives, if they are called.  The result is the module
\* state the call leaves, with raised = the exception, or "config" when the
\* config is returned.
load_profile(p, process, profile, dflt, engine) ==
    IF p.LOAD_PROFILE_CALLED
    THEN [p EXCEPT !.raised = "InvalidOperation", !.profile_entered = TRUE]
    ELSE LET p1 == [p EXCEPT !.LOAD_PROFILE_CALLED = TRUE,
                             !.profile_entered = TRUE]
             p2 == IF p1.CURRENT_AIIDADB_PROCESS = None /\ process = None
                   THEN [p1 EXCEPT !.CURRENT_AIIDADB_PROCESS = DEFAULT_PROCESS]
                   ELSE IF process # None
                           /\ process # p1.CURRENT_AIIDADB_PROCESS
                        THEN [p1 EXCEPT !.CURRENT_AIIDADB_PROCESS = process,
                                        !.AIIDADB_PROFILE = None]
                        ELSE p1
         IN IF p2.AIIDADB_PROFILE # None /\ profile # None
            THEN [p2 EXCEPT !.raised = "ValueError"]
            ELSE IF p2.AIIDADB_PROFILE = None /\ profile = None
                    /\ dflt = "ConfigurationError"
            THEN [p2 EXCEPT !.raised = "ConfigurationError"]
            ELSE LET p3 == IF p2.AIIDADB_PROFILE # None THEN p2
                           ELSE [p2 EXCEPT !.AIIDADB_PROFILE =
                                     IF profile # None THEN profile ELSE dflt]
                 IN IF engine = "ConfigurationError"
                    THEN [p3 EXCEPT !.raised = "ConfigurationError"]
                    ELSE IF engine # "postgresql_psycopg2"
                    THEN [p3 EXCEPT !.raised = "ValueError"]
                    ELSE [p3 EXCEPT !.raised = "config"]

\* Fault variant of load_dbenv: the profile is never loaded, the config is
\* always read with get_profile_config.
load_dbenv_no_profile(p, process, profile, connection, dflt, engine, fails) ==
    IF p.LOAD_DBENV_CALLED
    THEN [p EXCEPT !.raised = "InvalidOperation", !.dbenv_entered = TRUE]
    ELSE LET p1 == [p EXCEPT !.LOAD_DBENV_CALLED = TRUE,
                             !.dbenv_entered = TRUE]
         IN IF engine = "ConfigurationError"
            THEN [p1 EXCEPT !.raised = "ConfigurationError"]
            ELSE IF fails
            THEN [p1 EXCEPT !.raised = "Exception"]
            ELSE [p1 EXCEPT !.raised = "returned",
                            !.session =
                                IF connection = None
                                THEN <<"engine", p1.AIIDADB_PROFILE>>
                                ELSE <<"connection", connection>>]

\* load_dbenv(process, profile, connection) in the module state p.  fails says
\* that one of the imports, the formatting of the engine url, create_engine or
\* the making of the session raises.
load_dbenv(p, process, profile, connection, dflt, engine, fails) ==
    IF p.LOAD_DBENV_CALLED
    THEN [p EXCEPT !.raised = "InvalidOperation", !.dbenv_entered = TRUE]
    ELSE LET p1 == [p EXCEPT !.LOAD_DBENV_CALLED = TRUE,
                             !.dbenv_entered = TRUE]
             p2 == IF ~is_profile_loaded(p1)
                   THEN load_profile(p1, process, profile, dflt, engine)
                   ELSE IF engine = "ConfigurationError"
                        THEN [p1 EXCEPT !.raised = "ConfigurationError"]
                        ELSE [p1 EXCEPT !.raised = "config"]
         IN IF p2.raised # "config" THEN p2
            ELSE IF fails
            THEN [p2 EXCEPT !.raised = "Exception"]
            ELSE [p2 EXCEPT !.raised = "returned",
                            !.session =
                                IF connection = None
                                THEN <<"engine", p2.AIIDADB_PROFILE>>
                                ELSE <<"connection", connection>>]

\* ---------------------------------------------------------------- actions
\* A session with no transaction open.  pc is the statement of update_tc() the
\* session is at; ins and del are its uncommitted inserted rows and deleted
\* ids; purge is its PurgeList and iters the passes of the WHILE loop so far.
\* base and peer remember the committed table the transaction started from
\* and the row event of the transaction it overlapped with; opened counts the
\* transactions the session has opened.
IdleTxn ==
    [pc |-> "idle", op |-> "none", input |-> "A", output |-> "A",
     new_id |-> NULL, ins |-> {}, del |-> {}, purge |-> {}, iters |-> 0,
     result |-> "none", base |-> {}, peer |-> <<"none">>, opened |-> 0]

Init ==
    /\ links = EmptyBag
    /\ paths = {}
    /\ nextId = 1
    /\ last = "none"
    /\ txn = [s \in Sessions |-> IdleTxn]
    /\ py = FreshPy

\* INSERT of one row (i, o) into db_dblink.  autoupdate_tc is an AFTER ... FOR
\* each ROW trigger: the row is in the table when update_tc() runs, and what
\* update_tc() returns does not take it out again.
InsertLink(i, o) ==
    LET res == Guard(paths, i, o)
        T   == UpdateTcInsert(paths, i, o, nextId)
    IN /\ LinkCount(links) < MaxLinks
       /\ nextId <= MaxId
       /\ links' = links (+) LinkRow(i, o)
       /\ paths' = T
       /\ nextId' = nextId + Cardinality(T \ paths)
       /\ last' = res
       /\ UNCHANGED <<txn, py>>

\* DELETE of one row (i, o) of db_dblink.
DeleteLink(i, o) ==
    /\ BagIn(<<i, o>>, links)
    /\ links' = links (-) LinkRow(i, o)
    /\ paths' = UpdateTcDelete(paths, i, o)
    /\ nextId' = nextId
    /\ last' = IF DirectIds(paths, i, o) = {} THEN "noop" ELSE "purged"
    /\ UNCHANGED <<txn, py>>

Insert == \E p \in Inputs : InsertLink(p[1], p[2])

Delete == \E p \in Inputs : DeleteLink(p[1], p[2])

Next == Insert \/ Delete

Spec == Init /\ [][Next]_vars

\* Only INSERTs: the runs of "a sequence of edge insertions (no deletions)".
NextIns == Insert

SpecIns == Init /\ [][NextIns]_vars

\* ------------------------------------------- statement by statement
\* load_dbenv opens the session with create_engine(engine_url) and
\* sessionmaker(bind=engine): no isolation level is set, so each transaction
\* runs READ COMMITTED, and update_tc() takes no lock.  Every statement reads
\* the rows committed when it starts and the rows its own transaction wrote.
Other(s) == CHOOSE t \in Sessions : t # s

View(s) == {r \in paths : r.id \notin txn[s].del} \cup txn[s].ins

\* The transaction of s after a statement that leaves it the table V2.
Written(s, V2) ==
    [txn[s] EXCEPT !.ins = V2 \ paths,
                   !.del = {r.id : r \in paths \ V2}]

\* A transaction is open in session s.
InFlight(s) == txn[s].pc # "idle"

\* CREATE TABLE PurgeList waits while another open transaction has created
\* (and dropped, but not committed) a table of that name.
HoldsPurgeList(s) ==
    \/ txn[s].pc \in {"seed", "loop", "delete"}
    \/ txn[s].pc = "done" /\ txn[s].result = "purged"

\* The transactions of both sessions when s starts the row event (op, i, o).
Begin(s, op, i, o, pc) ==
    LET t == Other(s)
        alone == ~InFlight(t)
        first == InFlight(t) /\ txn[t].peer = <<"none">>
        mine == [IdleTxn EXCEPT
                    !.opened = txn[s].opened + 1,
                    !.pc = pc, !.op = op, !.input = i, !.output = o,
                    !.base = IF alone THEN paths
                             ELSE IF first THEN txn[t].base ELSE {},
                    !.peer = IF alone THEN <<"none">>
                             ELSE IF first
                                  THEN <<txn[t].op, txn[t].input, txn[t].output>>
                                  ELSE <<"many">>]
    IN [txn EXCEPT ![s] = mine,
                   ![t] = IF alone THEN @
                          ELSE [@ EXCEPT !.peer = IF first THEN <<op, i, o>>
                                                  ELSE <<"many">>]]

Opened == txn[CHOOSE s \in Sessions : TRUE].opened
              + txn[Other(CHOOSE s \in Sessions : TRUE)].opened

\* Fault variant of BeginInsert: the INSERT event takes the DELETE branch.
BeginInsertAsDelete(s, i, o) ==
    /\ ~InFlight(s)
    /\ Opened < MaxTxns
    /\ LinkCount(links)
         + Cardinality({t \in Sessions : txn[t].op = "INSERT"}) < MaxLinks
    /\ nextId <= MaxId
    /\ txn' = Begin(s, "INSERT", i, o, "exists")
    /\ UNCHANGED <<links, paths, nextId, last, py>>

\* INSERT of a row (i, o) into db_dblink by session s: the trigger starts.
BeginInsert(s, i, o) ==
    /\ ~InFlight(s)
    /\ Opened < MaxTxns
    /\ LinkCount(links)
         + Cardinality({t \in Sessions : txn[t].op = "INSERT"}) < MaxLinks
    /\ nextId <= MaxId
    /\ txn' = Begin(s, "INSERT", i, o, "guard1")
    /\ UNCHANGED <<links, paths, nextId, last, py>>

\* DELETE of a committed row (i, o) of db_dblink that no open transaction is
\* deleting (a row lock makes the second DELETE of a row wait).
BeginDelete(s, i, o) ==
    /\ ~InFlight(s)
    /\ Opened < MaxTxns
    /\ CopiesIn(<<i, o>>, links) >
           Cardinality({t \in Sessions : /\ txn[t].op = "DELETE"
                                         /\ txn[t].input = i
                                         /\ txn[t].output = o})
    /\ txn' = Begin(s, "DELETE", i, o, "exists")
    /\ UNCHANGED <<links, paths, nextId, last, py>>

\* IF EXISTS (... depth = 0) THEN RETURN null
StmtGuard1(s) ==
    /\ txn[s].pc = "guard1"
    /\ txn' = [txn EXCEPT ![s] =
                  IF DuplicateExists(View(s), @.input, @.output)
                  THEN [@ EXCEPT !.pc = "done", !.result = "AlreadyLinked"]
                  ELSE [@ EXCEPT !.pc = "guard2"]]
    /\ UNCHANGED <<links, paths, nextId, last, py>>

\* IF new.input = new.output OR EXISTS (...) THEN RETURN null
StmtGuard2(s) ==
    /\ txn[s].pc = "guard2"
    /\ txn' = [txn EXCEPT ![s] =
                  IF LoopOrCycle(View(s), @.input, @.output)
                  THEN [@ EXCEPT !.pc = "done",
                                 !.result = IF txn[s].input = txn[s].output
                                            THEN "SelfLoop"
                                            ELSE "WouldCreateCycle"]
                  ELSE [@ EXCEPT !.pc = "direct"]]
    /\ UNCHANGED <<links, paths, nextId, last, py>>

\* INSERT ... VALUES (input, output, 0); new_id := lastval()
StmtDirect(s) ==
    /\ txn[s].pc = "direct"
    /\ LET V2 == InsertDirect(View(s), txn[s].input, txn[s].output, nextId)
       IN txn' = [txn EXCEPT ![s] = [Written(s, V2) EXCEPT
                                       !.pc = "update", !.new_id = nextId]]
    /\ nextId' = nextId + 1
    /\ UNCHANGED <<links, paths, last, py>>

\* UPDATE ... SET entry_edge_id = new_id, ... WHERE id = new_id
StmtUpdate(s) ==
    /\ txn[s].pc = "update"
    /\ LET V2 == UpdateDirect(View(s), txn[s].new_id)
       IN txn' = [txn EXCEPT ![s] = [Written(s, V2) EXCEPT !.pc = "entry"]]
    /\ UNCHANGED <<links, paths, nextId, last, py>>

\* The three INSERT ... SELECT statements.
StmtEntry(s) ==
    /\ txn[s].pc = "entry"
    /\ LET V2 == InsertEntryPaths(View(s), txn[s].input, txn[s].output,
                                  txn[s].new_id, nextId)
       IN /\ txn' = [txn EXCEPT ![s] = [Written(s, V2) EXCEPT !.pc = "exit"]]
          /\ nextId' = nextId + Cardinality(V2 \ View(s))
    /\ UNCHANGED <<links, paths, last, py>>

StmtExit(s) ==
    /\ txn[s].pc = "exit"
    /\ LET V2 == InsertExitPaths(View(s), txn[s].input, txn[s].output,
                                 txn[s].new_id, nextId)
       IN /\ txn' = [txn EXCEPT ![s] = [Written(s, V2) EXCEPT !.pc = "cross"]]
          /\ nextId' = nextId + Cardinality(V2 \ View(s))
    /\ UNCHANGED <<links, paths, last, py>>

StmtCross(s) ==
    /\ txn[s].pc = "cross"
    /\ LET V2 == InsertCrossPaths(View(s), txn[s].input, txn[s].output,
                                  txn[s].new_id, nextId)
       IN /\ txn' = [txn EXCEPT ![s] = [Written(s, V2) EXCEPT
                                          !.pc = "done", !.result = "ok"]]
          /\ nextId' = nextId + Cardinality(V2 \ View(s))
    /\ UNCHANGED <<links, paths, last, py>>

\* IF NOT EXISTS (... depth = 0) THEN RETURN NULL
StmtExists(s) ==
    /\ txn[s].pc = "exists"
    /\ txn' = [txn EXCEPT ![s] =
                  IF DirectIds(View(s), @.input, @.output) = {}
                  THEN [@ EXCEPT !.pc = "done", !.result = "noop"]
                  ELSE [@ EXCEPT !.pc = "create"]]
    /\ UNCHANGED <<links, paths, nextId, last, py>>

\* CREATE TABLE PurgeList (Id int)
StmtCreate(s) ==
    /\ txn[s].pc = "create"
    /\ ~HoldsPurgeList(Other(s))
    /\ txn' = [txn EXCEPT ![s].pc = "seed"]
    /\ UNCHANGED <<links, paths, nextId, last, py>>

\* INSERT INTO PurgeList SELECT id ... depth = 0
StmtSeed(s) ==
    /\ txn[s].pc = "seed"
    /\ txn' = [txn EXCEPT ![s] =
                  [@ EXCEPT !.pc = "loop",
                            !.purge = DirectIds(View(s), txn[s].input,
                                               txn[s].output)]]
    /\ UNCHANGED <<links, paths, nextId, last, py>>

\* One pass of the WHILE loop: the INSERT INTO PurgeList, then EXIT when
\* ROW_COUNT is 0.
StmtLoop(s) ==
    /\ txn[s].pc = "loop"
    /\ LET added == PurgeScan(View(s), txn[s].purge)
       IN txn' = [txn EXCEPT ![s] =
                     [@ EXCEPT !.purge = @ \cup added,
                               !.iters = @ + 1,
                               !.pc = IF added = {} THEN "delete" ELSE "loop"]]
    /\ UNCHANGED <<links, paths, nextId, last, py>>

\* DELETE FROM closure WHERE Id IN (SELECT Id FROM PurgeList); DROP TABLE
StmtDelete(s) ==
    /\ txn[s].pc = "delete"
    /\ LET V2 == {r \in View(s) : r.id \notin txn[s].purge}
       IN txn' = [txn EXCEPT ![s] = [Written(s, V2) EXCEPT
                                       !.pc = "done", !.result = "purged"]]
    /\ UNCHANGED <<links, paths, nextId, last, py>>

\* update_tc() has returned: the transaction of s commits.
Commit(s) ==
    /\ txn[s].pc = "done"
    /\ paths' = View(s)
    /\ links' = IF txn[s].op = "INSERT"
                THEN links (+) LinkRow(txn[s].input, txn[s].output)
                ELSE links (-) LinkRow(txn[s].input, txn[s].output)
    /\ last' = txn[s].result
    /\ txn' = [txn EXCEPT ![s] = [IdleTxn EXCEPT !.opened = txn[s].opened]]
    /\ UNCHANGED <<nextId, py>>

TxnStep(s) ==
    \/ \E p \in TxnInputs : BeginInsert(s, p[1], p[2])
    \/ \E p \in TxnInputs : BeginDelete(s, p[1], p[2])
    \/ StmtGuard1(s) \/ StmtGuard2(s) \/ StmtDirect(s) \/ StmtUpdate(s)
    \/ StmtEntry(s) \/ StmtExit(s) \/ StmtCross(s)
    \/ StmtExists(s) \/ StmtCreate(s) \/ StmtSeed(s) \/ StmtLoop(s)
    \/ StmtDelete(s)
    \/ Commit(s)

NextTxn == \E s \in Sessions : TxnStep(s)

SpecTxn == Init /\ [][NextTxn]_vars

\* ------------------------------------------- UPDATE of a db_dblink row
\* Fault variant of UpdateTc: the INSERT branch taken for every event that is
\* not a DELETE.
UpdateTcElseInsert(T, op, i, o, newId) ==
    IF op = "DELETE" THEN UpdateTcDelete(T, i, o)
    ELSE UpdateTcInsert(T, i, o, newId)

\* The body of update_tc(): IF tg_op = 'INSERT' ... ELSEIF tg_op = 'DELETE'
\* ... END IF; RETURN NULL.  (i, o) is the NEW row, for a DELETE the OLD one.
UpdateTc(T, op, i, o, newId) ==
    IF op = "INSERT" THEN UpdateTcInsert(T, i, o, newId)
    ELSE IF op = "DELETE" THEN UpdateTcDelete(T, i, o)
    ELSE T

\* UPDATE of one row (i, o) of db_dblink to (i2, o2): autoupdate_tc fires with
\* tg_op = 'UPDATE'.
UpdateLink(i, o, i2, o2) ==
    LET T == UpdateTc(paths, "UPDATE", i2, o2, nextId)
    IN /\ BagIn(<<i, o>>, links)
       /\ nextId <= MaxId
       /\ links' = (links (-) LinkRow(i, o)) (+) LinkRow(i2, o2)
       /\ paths' = T
       /\ nextId' = nextId + Cardinality(T \ paths)
       /\ last' = "updated"
       /\ UNCHANGED <<txn, py>>

Update ==
    \E p \in Inputs, q \in UpdInputs : UpdateLink(p[1], p[2], q[1], q[2])

\* INSERTs and UPDATEs: the rows of db_dblink are written and rewritten.
NextUpd == Insert \/ Update

SpecUpd == Init /\ [][NextUpd]_vars

\* ------------------------------------------- storage failures
\* Fault variant of Fail: what the transaction wrote before the error stays.
FailKeepsWrites(s) ==
    /\ InFlight(s)
    /\ paths' = View(s)
    /\ last' = "failed"
    /\ txn' = [txn EXCEPT ![s] = [IdleTxn EXCEPT !.opened = txn[s].opened]]
    /\ UNCHANGED <<links, nextId, py>>

\* A statement of update_tc() (or the commit) fails in session s.  update_tc()
\* has no EXCEPTION clause and cannot commit: the error leaves the function,
\* the row event fails and its transaction is rolled back, PurgeList with it.
\* Values drawn from the id sequence are not given back.
Fail(s) ==
    /\ InFlight(s)
    /\ last' = "failed"
    /\ txn' = [txn EXCEPT ![s] = [IdleTxn EXCEPT !.opened = txn[s].opened]]
    /\ UNCHANGED <<links, paths, nextId, py>>

NextFail == NextTxn \/ \E s \in Sessions : Fail(s)

SpecFail == Init /\ [][NextFail]_vars

\* ------------------------------------- calls of load_profile, load_dbenv
\* A process starts with the flags unset and no session; the caller may have
\* set settings.CURRENT_AIIDADB_PROCESS and settings.AIIDADB_PROFILE.
InitEnv ==
    /\ links = EmptyBag
    /\ paths = {}
    /\ nextId = 1
    /\ last = "none"
    /\ txn = [s \in Sessions |-> IdleTxn]
    /\ py \in {[FreshPy EXCEPT !.CURRENT_AIIDADB_PROCESS = c,
                               !.AIIDADB_PROFILE = a] :
                  c \in Processes \cup {None}, a \in Profiles \cup {None}}

LoadProfile(process, profile, dflt, engine) ==
    /\ py.n < MaxCalls
    /\ py' = [load_profile(py, process, profile, dflt, engine)
                 EXCEPT !.call = "load_profile", !.n = py.n + 1]
    /\ UNCHANGED <<links, paths, nextId, last, txn>>

LoadDbenv(process, profile, connection, dflt, engine, fails) ==
    /\ py.n < MaxCalls
    /\ py' = [load_dbenv(py, process, profile, connection, dflt, engine, fails)
                 EXCEPT !.call = "load_dbenv", !.n = py.n + 1]
    /\ UNCHANGED <<links, paths, nextId, last, txn>>

CallLoadProfile ==
    \E process \in Processes \cup {None}, profile \in Profiles \cup {None},
       dflt \in DefaultProfiles, engine \in Engines :
        LoadProfile(process, profile, dflt, engine)

CallLoadDbenv ==
    \E process \in Processes \cup {None}, profile \in Profiles \cup {None},
       connection \in {None, "conn"},
       dflt \in DefaultProfiles, engine \in Engines, fails \in BOOLEAN :
        LoadDbenv(process, profile, connection, dflt, engine, fails)

NextEnv == CallLoadProfile \/ CallLoadDbenv

SpecEnv == InitEnv /\ [][NextEnv]_vars

\* ------------------------------------------------- vocabulary of the claims
\* The pairs joined by a directed path of one or more edges of the relation R.
RECURSIVE TransitiveClosure(_)
TransitiveClosure(R) ==
    LET R2 == R \cup {<<xy[1][1], xy[2][2]>> :
                         xy \in {q \in R \X R : q[1][2] = q[2][1]}}
    IN IF R2 = R THEN R ELSE TransitiveClosure(R2)

\* The current EdgeStore edge set: the (input, output) of the rows of db_dblink.
LinkPairs == BagToSet(links)

\* The accepted edges: the depth-0 rows of the closure table.
DirectRows == {r \in paths : r.depth = 0}

DirectPairs == {<<r.parent_id, r.child_id>> : r \in DirectRows}

\* reaches(a, b): some closure row has parent a and child b.
Reaches(a, b) == \E r \in paths : r.parent_id = a /\ r.child_id = b

Rejections == {"AlreadyLinked", "SelfLoop", "WouldCreateCycle"}

\* The step inserts, resp. deletes, one db_dblink row (i, o).
IsInsertOf(i, o) == links' = links (+) LinkRow(i, o)

IsDeleteOf(i, o) == BagIn(<<i, o>>, links) /\ links' = links (-) LinkRow(i, o)

\* The directed paths of the accepted edges, each as the sequence of its
\* depth-0 rows.
Max(S) == CHOOSE x \in S : \A y \in S : y <= x

EdgePaths ==
    UNION {{s \in [1..k -> DirectRows] :
               \A j \in 1..(k - 1) : s[j].child_id = s[j + 1].parent_id} :
           k \in 1..Cardinality(Nodes)}

\* The ids of the depth-0 rows on the path that the row with this id stands
\* for, read off its lineage: the path of entry_edge, then direct_edge, then
\* the path of exit_edge.
RECURSIVE PathEdges(_, _)
PathEdges(T, id) ==
    IF \A r \in T : r.id # id THEN {id}
    ELSE LET r == CHOOSE x \in T : x.id = id
         IN IF r.depth = 0 THEN {id}
            ELSE PathEdges(T, r.entry_edge_id) \cup PathEdges(T, r.direct_edge_id)
                     \cup PathEdges(T, r.exit_edge_id)

\* ------------------------------------------------------------------ claims
\* C1 (soundness, I1): in every state reached by insertions and deletions,
\* every closure row (p, c) has a directed path from p to c in the current
\* set of db_dblink rows.
C1_Soundness ==
    \A r \in paths : <<r.parent_id, r.child_id>> \in TransitiveClosure(LinkPairs)

\* A purge has run and rows of depth > 0 are still in the table.
C1_Witness ==
    /\ last = "purged"
    /\ \E r \in paths : r.depth > 0

\* C2 (completeness, I2): after insertions only, every directed path of the
\* accepted edges from A to B has a closure row (A, B) whose direct_edge is the
\* depth-0 row of the edge of the path that was inserted last (the largest id).
C2_Completeness ==
    \A s \in EdgePaths :
        \E r \in paths :
            /\ r.parent_id = s[1].parent_id
            /\ r.child_id = s[Len(s)].child_id
            /\ r.direct_edge_id = Max({s[j].id : j \in 1..Len(s)})

\* The chain A -> B -> C -> D is complete and its middle edge came last.
C2_Witness ==
    \E s \in EdgePaths :
        /\ Len(s) = 3
        /\ s[2].id > s[1].id
        /\ s[2].id > s[3].id

\* C3: reaches(a, b) holds exactly when a directed path from a to b exists in
\* the current set of db_dblink rows.
C3_ReachesIffPath ==
    \A a \in Nodes, b \in Nodes :
        Reaches(a, b) <=> <<a, b>> \in TransitiveClosure(LinkPairs)

\* C4 (acyclicity, I3): the accepted edges form a directed acyclic graph with
\* no self-loop and no repeated pair; no closure row has parent = child and
\* the table never holds rows for both (a, b) and (b, a).
C4_Acyclic ==
    /\ \A r \in DirectRows : r.parent_id # r.child_id
    /\ \A r \in DirectRows, s \in DirectRows :
           (r.parent_id = s.parent_id /\ r.child_id = s.child_id) => r = s
    /\ \A a \in Nodes : <<a, a>> \notin TransitiveClosure(DirectPairs)
    /\ \A r \in paths : r.parent_id # r.child_id
    /\ \A r \in paths, s \in paths :
           ~(r.parent_id = s.child_id /\ r.child_id = s.parent_id)

\* An insertion that would have closed a cycle over a path of two edges was
\* turned down.
C4_Witness ==
    /\ last = "WouldCreateCycle"
    /\ \E r \in paths : r.depth > 0 /\ BagIn(<<r.child_id, r.parent_id>>, links)

\* C5 (cycle rejection): inserting (i, o), i # o, is rejected with
\* WouldCreateCycle whenever a closure row (o, i) exists, and a closure row
\* (o, i) exists exactly when a directed path from o to i exists in the current
\* set of db_dblink rows.
C5_CycleRejection ==
    \A i \in Nodes, o \in Nodes :
        i # o =>
            /\ Reaches(o, i) => Guard(paths, i, o) = "WouldCreateCycle"
            /\ Reaches(o, i) <=> <<o, i>> \in TransitiveClosure(LinkPairs)

\* C6 (self-loop rejection): every insertion of a row (X, X) leaves by the
\* SelfLoop condition and creates no closure row.
C6_SelfLoopRejected ==
    [][\A x \in Nodes :
           IsInsertOf(x, x) => (last' = "SelfLoop" /\ paths' = paths)]_vars

\* A self-loop row was inserted while the table held rows.
C6_Witness ==
    /\ last = "SelfLoop"
    /\ paths # {}
    /\ \E x \in Nodes : BagIn(<<x, x>>, links)

\* C7 (duplicate rejection): inserting (i, o) while a depth-0 row (i, o) exists
\* is rejected with AlreadyLinked; while only rows (i, o) of depth > 0 exist it
\* is accepted.
C7_DuplicateRejected ==
    [][\A p \in Inputs :
           IsInsertOf(p[1], p[2]) =>
               /\ <<p[1], p[2]>> \in DirectPairs =>
                      (last' = "AlreadyLinked" /\ paths' = paths)
               /\ (/\ <<p[1], p[2]>> \notin DirectPairs
                   /\ \E r \in paths : /\ r.parent_id = p[1]
                                       /\ r.child_id = p[2]
                                       /\ r.depth > 0)
                      => (/\ last' = "ok"
                          /\ \E r \in paths' : /\ r.parent_id = p[1]
                                               /\ r.child_id = p[2]
                                               /\ r.depth = 0)]_vars

\* A direct edge was accepted for a pair that a longer path already proved.
C7_Witness ==
    /\ last = "ok"
    /\ \E r \in paths, s \in paths :
           /\ r.parent_id = s.parent_id
           /\ r.child_id = s.child_id
           /\ r.depth = 0
           /\ s.depth > 0
           /\ r.id > s.id

\* C8: a rejected insertion (SelfLoop, AlreadyLinked, WouldCreateCycle) leaves
\* the closure table, and its id sequence, exactly as they were.
C8_RejectedLeavesTable ==
    [][((\E p \in Inputs : IsInsertOf(p[1], p[2])) /\ last' \in Rejections)
           => (paths' = paths /\ nextId' = nextId)]_vars

\* An insertion was rejected while the table held derived rows.
C8_Witness ==
    /\ last \in Rejections
    /\ \E r \in paths : r.depth > 0

\* C9: a row (i, o) is in db_dblink exactly when a depth-0 closure row (i, o)
\* exists.
C9_InSync ==
    \A i \in Nodes, o \in Nodes :
        BagIn(<<i, o>>, links) <=> <<i, o>> \in DirectPairs

\* C10 (cascading purge): deleting a row (i, o) that has a depth-0 closure row
\* e removes exactly the closure rows whose path passes through e and leaves
\* every other row as it was.
C10_PurgeExact ==
    [][\A p \in Inputs :
           (IsDeleteOf(p[1], p[2]) /\ <<p[1], p[2]>> \in DirectPairs) =>
               LET e == CHOOSE r \in DirectRows :
                            r.parent_id = p[1] /\ r.child_id = p[2]
               IN /\ last' = "purged"
                  /\ paths' = {r \in paths : e.id \notin PathEdges(paths, r.id)}
                  /\ e \notin paths']_vars

\* The chain A -> B -> C -> D after the deletion of (B, C): only the depth-0
\* rows (A, B) and (C, D) are left, of the six rows there were.
C10_Witness ==
    /\ last = "purged"
    /\ nextId = 7
    /\ {<<r.parent_id, r.child_id, r.depth>> : r \in paths}
           = {<<"A", "B", 0>>, <<"C", "D", 0>>}
    /\ Cardinality(paths) = 2

\* ------------------------------------------- vocabulary of the later claims
\* A closure row without its id, and a table as the rows it holds up to ids.
Shape(r) == <<r.parent_id, r.child_id, r.depth>>

ShapeCount(T, t) == Cardinality({r \in T : Shape(r) = t})

SameShape(T1, T2) ==
    \A t \in {Shape(r) : r \in T1 \cup T2} : ShapeCount(T1, t) = ShapeCount(T2, t)

Lineage(r) ==
    <<r.parent_id, r.child_id, r.depth,
      r.entry_edge_id, r.direct_edge_id, r.exit_edge_id>>

\* The accepted edges form one simple chain: no node has two outgoing or two
\* incoming edges and one path runs through all of them.
IsChain ==
    /\ DirectRows # {}
    /\ \A r \in DirectRows, s \in DirectRows :
           (r.parent_id = s.parent_id \/ r.child_id = s.child_id) => r = s
    /\ \E s \in EdgePaths : Len(s) = Cardinality(DirectRows)

\* C11 (dependency closure, I4): the entry_edge, direct_edge and exit_edge of
\* every closure row are ids of rows that are in the table.
C11_NoDangling ==
    \A r \in paths :
        \A id \in {r.entry_edge_id, r.direct_edge_id, r.exit_edge_id} :
            \E s \in paths : s.id = id

\* A purge has removed rows and rows citing other rows are left.
C11_Witness ==
    /\ last = "purged"
    /\ \E r \in paths : r.depth > 0 /\ r.entry_edge_id # r.exit_edge_id
    /\ nextId > Cardinality(paths) + 1

\* C12 (idempotent deletion): deleting a row (i, o) that has no depth-0 closure
\* row leaves the table as it was and ends normally; after any deletion of
\* (i, o), deleting (i, o) again changes nothing.
C12_IdempotentDelete ==
    [][\A p \in Inputs :
           IsDeleteOf(p[1], p[2]) =>
               /\ <<p[1], p[2]>> \notin DirectPairs =>
                      (paths' = paths /\ last' = "noop")
               /\ UpdateTcDelete(paths', p[1], p[2]) = paths']_vars

\* A db_dblink row without depth-0 closure row was deleted while the table
\* held derived rows.
C12_Witness ==
    /\ last = "noop"
    /\ \E r \in paths : r.depth > 0

\* C13 (delete / reinsert): in every reachable state, for every accepted edge
\* e, deleting e and inserting it again is accepted and gives the table that
\* was there, up to the ids of the rows.
C13_RoundTrip ==
    \A p \in DirectPairs :
        LET T1 == UpdateTcDelete(paths, p[1], p[2])
        IN /\ Guard(T1, p[1], p[2]) = "ok"
           /\ SameShape(UpdateTcInsert(T1, p[1], p[2], nextId), paths)

\* The chain A -> B -> C -> D after (B, C) was deleted and inserted again: six
\* rows, ten ids drawn.
C13_Witness ==
    /\ last = "ok"
    /\ nextId = 11
    /\ Cardinality(paths) = 6
    /\ {Shape(r) : r \in paths} =
           {<<"A", "B", 0>>, <<"B", "C", 0>>, <<"C", "D", 0>>,
            <<"A", "C", 1>>, <<"B", "D", 1>>, <<"A", "D", 2>>}
    /\ \E r \in paths : Shape(r) = <<"B", "C", 0>> /\ r.id = 7

\* C15: an accepted insertion of (i, o) adds the depth-0 row, one row per row
\* E that ended at i, one per row F that started at o and one per pair (E, F),
\* with the stated fields, all with direct_edge = the new depth-0 id, and
\* leaves every row that was there unchanged.
C15_InsertAddsExactly ==
    [][\A p \in Inputs :
           (IsInsertOf(p[1], p[2]) /\ last' = "ok") =>
               LET E == {r \in paths : r.child_id = p[1]}
                   F == {r \in paths : r.parent_id = p[2]}
                   n == nextId
                   new == paths' \ paths
               IN /\ paths \subseteq paths'
                  /\ Cardinality(new) =
                         1 + Cardinality(E) + Cardinality(F)
                           + Cardinality(E) * Cardinality(F)
                  /\ {Lineage(r) : r \in new} =
                         {<<p[1], p[2], 0, n, n, n>>}
                         \cup {<<e.parent_id, p[2], e.depth + 1, e.id, n, n>> :
                                  e \in E}
                         \cup {<<p[1], f.child_id, f.depth + 1, n, n, f.id>> :
                                  f \in F}
                         \cup {<<ef[1].parent_id, ef[2].child_id,
                                 ef[1].depth + ef[2].depth + 2,
                                 ef[1].id, n, ef[2].id>> : ef \in E \X F}
                  /\ \A r \in new : r.id >= n
                  /\ \A r \in new, q \in new : r.id = q.id => r = q]_vars

\* An insertion joined a path into its input with a path out of its output.
C15_Witness ==
    /\ last = "ok"
    /\ \E r \in paths : /\ r.depth = 2
                        /\ r.entry_edge_id # r.direct_edge_id
                        /\ r.exit_edge_id # r.direct_edge_id

\* C16 as stated: the depth of every closure row equals the number of edges of
\* the path the row stands for.
C16_DepthIsEdgeCount ==
    \A r \in paths : r.depth = Cardinality(PathEdges(paths, r.id))

\* C16 as it holds: the depth of every closure row is the number of edges of
\* its path less one (the number of nodes between parent and child), and the
\* edges of its lineage do form a path from its parent to its child.
C16_DepthIsEdgeCountLessOne ==
    \A r \in paths :
        /\ r.depth = Cardinality(PathEdges(paths, r.id)) - 1
        /\ \E s \in EdgePaths :
               /\ {s[j].id : j \in 1..Len(s)} = PathEdges(paths, r.id)
               /\ s[1].parent_id = r.parent_id
               /\ s[Len(s)].child_id = r.child_id

\* A row for a path of three edges is in the table after a purge.
C16_Witness ==
    /\ \E r \in paths : r.depth = 2
    /\ nextId > Cardinality(paths) + 1

\* C17: whatever the order of the insertions, when the accepted edges form a
\* chain of n edges the table holds n(n+1)/2 rows, one per sub-path, the row of
\* a sub-path with k nodes between its ends having depth k; (A,B) and (B,C)
\* give depth-0 (A,B), depth-0 (B,C) and one (A,C) of depth 1.
C17_ChainRows ==
    /\ IsChain =>
           LET n == Cardinality(DirectRows)
           IN /\ 2 * Cardinality(paths) = n * (n + 1)
              /\ \A s \in EdgePaths :
                     Cardinality({r \in paths :
                         /\ r.parent_id = s[1].parent_id
                         /\ r.child_id = s[Len(s)].child_id}) = 1
              /\ \A s \in EdgePaths : \E r \in paths :
                     Shape(r) = <<s[1].parent_id, s[Len(s)].child_id, Len(s) - 1>>
    /\ DirectPairs = {<<"A", "B">>, <<"B", "C">>} =>
           /\ Cardinality(paths) = 3
           /\ {Shape(r) : r \in paths} =
                  {<<"A", "B", 0>>, <<"B", "C", 0>>, <<"A", "C", 1>>}

\* The chain A -> B -> C -> D was built with its first edge inserted last.
C17_Witness ==
    /\ IsChain
    /\ Cardinality(paths) = 6
    /\ \E r \in DirectRows : Shape(r) = <<"A", "B", 0>> /\ r.id = 4

\* --------------------------------------- claims about the single statements
\* Every closure row there is, committed or not.
AllRows == paths \cup UNION {txn[s].ins : s \in Sessions}

\* The row event of the transaction of s.
Event(s) == <<txn[s].op, txn[s].input, txn[s].output>>

\* A row event run alone, as one step, on the table T.
FreshId(T) == Max({0} \cup {r.id : r \in T}) + 1

Apply(T, ev) ==
    IF ev[1] = "INSERT" THEN UpdateTcInsert(T, ev[2], ev[3], FreshId(T))
    ELSE UpdateTcDelete(T, ev[2], ev[3])

Serial(T, e1, e2) == Apply(Apply(T, e1), e2)

\* The step commits the second of exactly two transactions that overlapped.
PairCommit(s) ==
    /\ txn[s].pc = "done"
    /\ txn'[s].pc = "idle"
    /\ txn[s].peer \notin {<<"none">>, <<"many">>}
    /\ ~InFlight(Other(s))

\* The transitive neighbourhood of a row event in the table T: its end points,
\* their ancestors and their descendants.
Region(T, ev) ==
    {ev[2], ev[3]}
    \cup {r.parent_id : r \in {x \in T : x.child_id \in {ev[2], ev[3]}}}
    \cup {r.child_id : r \in {x \in T : x.parent_id \in {ev[2], ev[3]}}}

Disjoint(T, e1, e2) == Region(T, e1) \cap Region(T, e2) = {}

\* C14: the purge list only grows, every pass of the loop that does not exit
\* adds an id that was not in it, and the loop exits after at most (rows of the
\* closure table) + 1 passes.
C14_LoopTerminates ==
    [][\A s \in Sessions :
           txn[s].pc = "loop" =>
               /\ txn'[s].pc \in {"loop", "delete"}
               /\ txn[s].purge \subseteq txn'[s].purge
               /\ txn'[s].iters # txn[s].iters =>
                      /\ txn'[s].pc = "loop" => txn'[s].purge # txn[s].purge
                      /\ txn'[s].iters = txn[s].iters + 1
                      /\ txn'[s].iters <= Cardinality(View(s)) + 1]_vars

\* The loop has exited on its second pass, the first having added a row.
C14_Witness ==
    \E s \in Sessions :
        /\ txn[s].pc = "delete"
        /\ txn[s].iters = 2
        /\ Cardinality(txn[s].purge) = 2

C19_Serializable ==
    [][\A s \in Sessions :
           (PairCommit(s) /\ ~Disjoint(txn[s].base, Event(s), txn[s].peer)) =>
               \/ SameShape(paths', Serial(txn[s].base, Event(s), txn[s].peer))
               \/ SameShape(paths', Serial(txn[s].base, txn[s].peer, Event(s)))]_vars

\* C20: two insertions with disjoint transitive neighbourhoods that run in
\* overlapping transactions leave the rows (by parent, child, depth) that
\* either serial order leaves.
C20_DisjointInsertsCommute ==
    [][\A s \in Sessions :
           (/\ PairCommit(s)
            /\ txn[s].op = "INSERT"
            /\ txn[s].peer[1] = "INSERT"
            /\ Disjoint(txn[s].base, Event(s), txn[s].peer)) =>
               /\ SameShape(paths', Serial(txn[s].base, Event(s), txn[s].peer))
               /\ SameShape(paths', Serial(txn[s].base, txn[s].peer, Event(s)))]_vars

\* The insertion of (A, B) has run beside the insertion of (C, D), which has
\* committed.
C20_Witness ==
    \E s \in Sessions :
        /\ txn[s].pc = "done"
        /\ txn[s].result = "ok"
        /\ Event(s) = <<"INSERT", "A", "B">>
        /\ txn[s].peer = <<"INSERT", "C", "D">>
        /\ ~InFlight(Other(s))
        /\ <<"C", "D">> \in DirectPairs

\* ------------------------------------------------- claims about the table
\* C23 (no self-amplification): in an accepted insertion of (i, o) no row that
\* the three INSERT ... SELECT statements write has child = i or parent = o, and
\* every such row is derived from rows that were in the table before the
\* insertion: its entry_edge and exit_edge are the new depth-0 row or a row of
\* the table as it was.
C23_NoSelfAmplification ==
    [][\A p \in Inputs :
           (IsInsertOf(p[1], p[2]) /\ last' = "ok") =>
               LET old == {r.id : r \in paths} \cup {nextId}
               IN \A r \in paths' \ paths :
                      r.depth > 0 =>
                          /\ r.child_id # p[1]
                          /\ r.parent_id # p[2]
                          /\ r.entry_edge_id \in old
                          /\ r.exit_edge_id \in old
                          /\ r.direct_edge_id = nextId]_vars

\* The last statement of the last insertion wrote a row joining a path into the
\* input with a path out of the output.
C23_Witness ==
    /\ last = "ok"
    /\ \E r \in paths : /\ r.id = nextId - 1
                        /\ r.depth = 2
                        /\ r.entry_edge_id < r.direct_edge_id
                        /\ r.exit_edge_id < r.direct_edge_id

\* C24 (multiset of paths): for every pair (p, c) the number of closure rows
\* with parent p and child c equals the number of directed paths from p to c
\* over the accepted edges (paths of up to four edges, one more than four
\* nodes allow without a cycle), whatever the order of the insertions and
\* deletions was.
C24_PathMultiset ==
    LET D == {r \in paths : r.depth = 0}
        Longer(P) == {Append(x[1], x[2]) :
                         x \in {y \in P \X D :
                                   y[1][Len(y[1])].child_id = y[2].parent_id}}
        P1 == {<<r>> : r \in D}
        P2 == Longer(P1)
        P3 == Longer(P2)
        P4 == Longer(P3)
        P == P1 \cup P2 \cup P3 \cup P4
    IN \A a \in Nodes, b \in Nodes :
           Cardinality({r \in paths : r.parent_id = a /\ r.child_id = b})
               = Cardinality({s \in P : /\ s[1].parent_id = a
                                        /\ s[Len(s)].child_id = b})

\* Of two rows proving one pair, a deletion has purged one with the edge it ran
\* over: four ids were drawn, and the direct rows (B, C) and (A, C) are left.
C24_Witness ==
    /\ last = "purged"
    /\ nextId = 5
    /\ {Shape(r) : r \in paths} = {<<"B", "C", 0>>, <<"A", "C", 0>>}
    /\ Cardinality(paths) = 2

\* C25: there is at most one depth-0 row per (parent, child); a row has depth 0
\* exactly when its entry_edge, direct_edge and exit_edge all are its own id;
\* the direct_edge of a row of depth > 0 is the id of a depth-0 row other than
\* itself.
C25_DirectRowShape ==
    /\ \A r \in paths, s \in paths :
           (/\ r.depth = 0
            /\ s.depth = 0
            /\ r.parent_id = s.parent_id
            /\ r.child_id = s.child_id) => r = s
    /\ \A r \in paths :
           r.depth = 0 <=> (/\ r.entry_edge_id = r.id
                            /\ r.direct_edge_id = r.id
                            /\ r.exit_edge_id = r.id)
    /\ \A r \in paths :
           r.depth > 0 => \E d \in paths : /\ d.depth = 0
                                           /\ d.id = r.direct_edge_id
                                           /\ d.id # r.id

\* A second row for an accepted edge was turned down while the table held a
\* row built on that edge.
C25_Witness ==
    /\ last = "AlreadyLinked"
    /\ \E r \in paths, d \in paths :
           /\ r.depth > 0
           /\ d.id = r.direct_edge_id
           /\ CopiesIn(<<d.parent_id, d.child_id>>, links) = 2

\* C26: for every candidate edge (i, o) at most one of the three rejection
\* conditions holds: i = o, a depth-0 row (i, o) exists, a row (o, i) exists.
C26_RejectionsExclusive ==
    \A i \in Nodes, o \in Nodes :
        Cardinality({k \in 1..3 :
                        \/ k = 1 /\ i = o
                        \/ k = 2 /\ \E r \in paths : /\ r.parent_id = i
                                                     /\ r.child_id = o
                                                     /\ r.depth = 0
                        \/ k = 3 /\ \E r \in paths : /\ r.parent_id = o
                                                     /\ r.child_id = i}) <= 1

\* An insertion was rejected over a table with a derived row while db_dblink
\* held a self-loop row on the parent of that row.
C26_Witness ==
    /\ last \in Rejections
    /\ \E r \in paths : r.depth > 0 /\ BagIn(<<r.parent_id, r.parent_id>>, links)

\* ------------------------------------------- claims about the trigger calls
\* C22: every inserted and every deleted db_dblink row goes with one call of
\* update_tc(), made for that row, and the call runs the statements of the
\* INSERT branch for an inserted row and those of the DELETE branch for a
\* deleted row, never statements of both.
C22_OneHandlerPerRow ==
    [][/\ links' # links =>
              \E s \in Sessions : /\ txn[s].pc = "done"
                                  /\ txn'[s].pc = "idle"
                                  /\ txn'[Other(s)].pc = txn[Other(s)].pc
       /\ \A s \in Sessions :
              /\ (txn[s].pc = "done" /\ txn'[s].pc = "idle") =>
                     \/ /\ txn[s].op = "INSERT"
                        /\ IsInsertOf(txn[s].input, txn[s].output)
                        /\ txn[s].result \in {"ok"} \cup Rejections
                        /\ txn[s].purge = {}
                        /\ txn[s].iters = 0
                        /\ txn[s].del = {}
                     \/ /\ txn[s].op = "DELETE"
                        /\ IsDeleteOf(txn[s].input, txn[s].output)
                        /\ txn[s].result \in {"noop", "purged"}
                        /\ txn[s].ins = {}
                        /\ txn[s].new_id = NULL
              /\ txn'[s].pc \in {"guard1", "guard2", "direct", "update",
                                 "entry", "exit", "cross"}
                     => txn'[s].op = "INSERT"
              /\ txn'[s].pc \in {"exists", "create", "seed", "loop", "delete"}
                     => txn'[s].op = "DELETE"]_vars

\* A call for a deleted row has purged rows and a call for an inserted row has
\* written rows, side by side.
C22_Witness ==
    \E s \in Sessions :
        /\ txn[s].pc = "done"
        /\ txn[s].op = "DELETE"
        /\ txn[s].result = "purged"
        /\ txn[Other(s)].pc = "done"
        /\ txn[Other(s)].op = "INSERT"
        /\ txn[Other(s)].result = "ok"

C27_UpdateLeavesTable ==
    [][\A p \in Inputs, q \in UpdInputs :
           (/\ BagIn(p, links)
            /\ links' = (links (-) LinkRow(p[1], p[2])) (+) LinkRow(q[1], q[2])
            /\ last' = "updated")
               => (paths' = paths /\ nextId' = nextId)]_vars

\* The db_dblink row of an accepted edge was changed into the row of another
\* pair: the table still holds the edge, and rows built on it, and db_dblink
\* does not.
C27_Witness ==
    /\ last = "updated"
    /\ \E r \in paths, d \in paths :
           /\ r.depth > 0
           /\ d.id = r.direct_edge_id
           /\ ~BagIn(<<d.parent_id, d.child_id>>, links)

\* ------------------------------------- claims about the Python environment
Settings(p) ==
    <<p.LOAD_PROFILE_CALLED, p.LOAD_DBENV_CALLED, p.CURRENT_AIIDADB_PROCESS,
      p.AIIDADB_PROFILE, p.session>>

\* C28: once load_profile has been entered, however that call ended, every
\* later call of load_profile raises InvalidOperation and changes no setting;
\* once load_dbenv has been entered, every later call of load_dbenv raises
\* InvalidOperation.
C28_LoadOnce ==
    [][py'.n = py.n + 1 =>
           /\ (py'.call = "load_profile" /\ py.profile_entered) =>
                  /\ py'.raised = "InvalidOperation"
                  /\ Settings(py') = Settings(py)
           /\ (py'.call = "load_dbenv" /\ py.dbenv_entered) =>
                  /\ py'.raised = "InvalidOperation"
                  /\ Settings(py') = Settings(py)]_vars

\* The second call of load_profile, after a first one that raised before it
\* had set a profile, has raised InvalidOperation.
C28_Witness ==
    /\ py.n = 2
    /\ py.call = "load_profile"
    /\ py.raised = "InvalidOperation"
    /\ ~py.dbenv_entered
    /\ py.AIIDADB_PROFILE = None

\* C29: whenever is_dbenv_loaded() is true, load_dbenv has been called and
\* is_profile_loaded() is true; a call of load_dbenv that returns leaves
\* is_dbenv_loaded() true, and no later call makes it false.
C29_DbenvLoaded ==
    [][/\ is_dbenv_loaded(py') => (py'.dbenv_entered /\ is_profile_loaded(py'))
       /\ (py'.n = py.n + 1 /\ py'.call = "load_dbenv" /\ py'.raised = "returned")
              => is_dbenv_loaded(py')
       /\ is_dbenv_loaded(py) => py'.session = py.session]_vars

\* load_dbenv has returned and two later calls have been turned down: the
\* session is still there.
C29_Witness ==
    /\ is_dbenv_loaded(py)
    /\ py.n = 3
    /\ py.raised = "InvalidOperation"

====
